---- MODULE Spec2Model ----
(***************************************************************************)
(* Model of app.py, the Streamlit script of the diabetic-retinopathy       *)
(* detection tool: the memoized model/metadata loader, the preprocessor,   *)
(* the predictor with its 0.5 threshold, the single-image flow and the     *)
(* batch loop with its summary counts.                                     *)
(*                                                                         *)
(* One behaviour is one server process: the script is run top to bottom,   *)
(* and run again on every user interaction (Rerun).  The filesystem, the   *)
(* uploaded files and what PIL / Keras do with them are inputs, drawn at   *)
(* the step that reads them.                                               *)
(*                                                                         *)
(* Python values: None is <<>>, any other value v is <<v>>.  Probabilities *)
(* are integers in units of 1/PScale.  Strings that the code formats or    *)
(* searches (Confidence, Status) are sequences of characters.              *)
(***************************************************************************)
EXTENDS Integers, Sequences, FiniteSets

VARIABLES
    cache,        \* st.cache_resource entry of load_trained_model: None or <<ret>>
    model,        \* global model     (line 127)
    metadata,     \* global metadata  (line 127)
    error,        \* global error     (lines 127, 253, 353)
    pc,           \* position of the script run
    batch_files,  \* names of the files of the batch uploader
    idx,          \* number of batch files already handled by the loop
    results,      \* the batch loop's list of records
    summary,      \* the four summary counts, None before they are computed
    loadCall,     \* history: the load_trained_model call of the last step, or None
    predCall,     \* history: the predict_image call of the last step, or None
    outcomes,     \* history: how each handled batch image fared: "failed", "dr", "nodr"
    raised        \* the exception that ended the script run, or None

vars == <<cache, model, metadata, error, pc, batch_files, idx, results,
          summary, loadCall, predCall, outcomes, raised>>

(***************************************************************************)
(* Bounds                                                                  *)
(***************************************************************************)
\* the model's output p ranges over 0 .. 2*PHalf, in units of 1/(2*PHalf)
PHalf == 2
\* largest number of files in one batch upload
MaxBatch == 3

PScale == 2 * PHalf

None == <<>>
Some(v) == <<v>>

\* Python truthiness of an optional string: None and "" are falsy
Truthy(e) == e # None /\ e # Some("")

(***************************************************************************)
(* Outcomes of the library calls the script makes                          *)
(***************************************************************************)
\* str(e) of the exceptions a library call can raise: some carry no message
ExcMessages == {"", "cannot identify image file"}

Returns(v) == [kind |-> "ok", val |-> v, msg |-> ""]
Raises(m) == [kind |-> "raise", val |-> None, msg |-> m]

possible_paths ==
    << "models/best_model.h5", "models/dr_model_final.h5",
       "best_model.h5", "dr_model_final.h5" >>

metadata_paths == << "models/metadata.json", "metadata.json" >>

Range(s) == { s[i] : i \in 1..Len(s) }

AllPaths == Range(possible_paths) \cup Range(metadata_paths)

\* the default record with another accuracy
DefaultMetadataStale ==
    [ classes |-> <<"DR", "No_DR">>, test_accuracy |-> 95, test_auc |-> 99,
      architecture |-> "EfficientNetB3" ]

DefaultMetadata ==
    [ classes |-> <<"DR", "No_DR">>, test_accuracy |-> 96, test_auc |-> 99,
      architecture |-> "EfficientNetB3" ]

\* two metadata documents a metadata file may hold (accuracy, auc in percent)
FileMetadataA ==
    [ classes |-> <<"DR", "No_DR">>, test_accuracy |-> 91, test_auc |-> 95,
      architecture |-> "EfficientNetB0" ]
FileMetadataB ==
    [ classes |-> <<"DR", "No_DR">>, test_accuracy |-> 88, test_auc |-> 93,
      architecture |-> "ResNet50" ]

\* load_model(path, compile=False): a model object, or an exception
LoadOutcomes == { Returns(Some("keras model")) } \cup { Raises(m) : m \in ExcMessages }

\* open + json.load: a document, JSON null (Python None), or an exception
JsonOutcomes ==
    { Returns(Some(FileMetadataA)), Returns(Some(FileMetadataB)), Returns(None) }
        \cup { Raises(m) : m \in ExcMessages }

\* a filesystem: which candidate paths exist and what reading each one does
Filesystems ==
    [ exists : SUBSET AllPaths,
      load : [Range(possible_paths) -> LoadOutcomes],
      json : [Range(metadata_paths) -> JsonOutcomes] ]

(***************************************************************************)
(* load_trained_model                                                      *)
(***************************************************************************)
RECURSIVE ScanFrom(_, _, _)
\* for path in paths[i..]: if os.path.exists(path): take it; break
ScanFrom(paths, i, exists) ==
    IF i > Len(paths) THEN None
    ELSE IF paths[i] \in exists THEN Some(paths[i])
    ELSE ScanFrom(paths, i + 1, exists)

RECURSIVE ScanAll(_, _, _, _)
ScanAll(paths, i, exists, found) ==
    IF i > Len(paths) THEN found
    ELSE ScanAll(paths, i + 1, exists,
                 IF paths[i] \in exists THEN Some(paths[i]) ELSE found)

\* the loop with its break forgotten: the last existing path wins
LastExisting(paths, exists) == ScanAll(paths, 1, exists, None)

FirstExisting(paths, exists) == ScanFrom(paths, 1, exists)

\* the value of "metadata" at line 121, given what json.load returned
MetadataOrDefault(parsed) ==
    IF parsed = None THEN Some(DefaultMetadata) ELSE parsed

\* a metadata file that cannot be read is skipped for the default record
ResolveMetadataLenient(fs) ==
    LET meta_path == FirstExisting(metadata_paths, fs.exists) IN
    IF meta_path = None
    THEN [ kind |-> "ok", val |-> MetadataOrDefault(None), msg |-> "", read |-> <<>> ]
    ELSE
      LET jo == fs.json[meta_path[1]] IN
      [ kind |-> "ok", val |-> MetadataOrDefault(jo.val), msg |-> "",
        read |-> meta_path ]

\* lines 104-119: the metadata loop and the default record; an exception of
\* open or json.load leaves the loop and the function's try
ResolveMetadata(fs) ==
    LET meta_path == FirstExisting(metadata_paths, fs.exists) IN
    IF meta_path = None
    THEN [ kind |-> "ok", val |-> MetadataOrDefault(None), msg |-> "", read |-> <<>> ]
    ELSE
      LET jo == fs.json[meta_path[1]] IN
      IF jo.kind = "raise"
      THEN [ kind |-> "raise", val |-> None, msg |-> jo.msg, read |-> meta_path ]
      ELSE [ kind |-> "ok", val |-> MetadataOrDefault(jo.val), msg |-> "",
             read |-> meta_path ]

\* the metadata defaulted even though no model was found
NotFoundWithDefaults ==
    [ ret |-> <<None, Some(DefaultMetadata), Some("Model file not found")>>,
      loaded |-> <<>>, read |-> <<>> ]

\* what the function returns when no model candidate exists
NotFound ==
    [ ret |-> <<None, None, Some("Model file not found")>>,
      loaded |-> <<>>, read |-> <<>> ]

\* ret: the returned triple; loaded: the paths given to load_model;
\* read: the metadata paths opened
load_trained_model(fs) ==
    LET model_path == FirstExisting(possible_paths, fs.exists) IN
    IF model_path = None THEN NotFound
    ELSE
      LET lo == fs.load[model_path[1]] IN
      IF lo.kind = "raise"
      THEN [ ret |-> <<None, None, Some(lo.msg)>>,
             loaded |-> model_path, read |-> <<>> ]
      ELSE
        LET m == ResolveMetadata(fs) IN
        IF m.kind = "raise"
        THEN [ ret |-> <<None, None, Some(m.msg)>>,
               loaded |-> model_path, read |-> m.read ]
        ELSE [ ret |-> <<lo.val, m.val, None>>,
               loaded |-> model_path, read |-> m.read ]

(***************************************************************************)
(* preprocess_image and predict_image                                      *)
(***************************************************************************)
\* what model.predict raises when it is handed None instead of a tensor
NullInputMessage == "Unrecognized data type: x=None"

\* what happens to one uploaded image: Image.open, then convert/resize/
\* preprocess_input, then model.predict on the tensor
PreOutcomes == { Returns(Some("tensor")) } \cup { Raises(m) : m \in ExcMessages }
OutOutcomes == { Returns(Some(p)) : p \in 0..PScale } \cup { Raises(m) : m \in ExcMessages }

Images ==
    { [open |-> FALSE, pre |-> Raises(""), out |-> Raises("")] }
    \cup { [open |-> TRUE, pre |-> Raises(m), out |-> Raises("")] : m \in ExcMessages }
    \cup { [open |-> TRUE, pre |-> Returns(Some("tensor")), out |-> o] : o \in OutOutcomes }

\* (img_array, error)
preprocess_image(image) ==
    IF image.pre.kind = "ok" THEN <<image.pre.val, None>>
    ELSE <<None, Some(image.pre.msg)>>

\* model.predict(processed_img, verbose=0) followed by float(prediction[0][0])
ModelPredict(processed_img, image) ==
    IF processed_img = None THEN Raises(NullInputMessage) ELSE image.out

\* the threshold written with >=
IsNoDRInclusive(probability) == 2 * probability >= PScale

\* the threshold of line 158
IsNoDR(probability) == 2 * probability > PScale

\* lines 158-165: (predicted_label, confidence)
Decide(probability) ==
    IF IsNoDR(probability)
    THEN <<"No_Diabetic_Retinopathy", probability>>
    ELSE <<"Diabetic_Retinopathy", PScale - probability>>

\* the "if error:" test of line 150
PreprocessFailed(err) == Truthy(err)

\* ret: (predicted_label, confidence, error); pre, inf: whether preprocess_image
\* and model.predict were called
predict_image(mdl, image) ==
    IF mdl = None
    THEN [ ret |-> <<None, None, Some("Model not loaded")>>,
           pre |-> FALSE, inf |-> FALSE ]
    ELSE
      LET pp == preprocess_image(image) IN
      IF PreprocessFailed(pp[2])
      THEN [ ret |-> <<None, None, pp[2]>>, pre |-> TRUE, inf |-> FALSE ]
      ELSE
        LET out == ModelPredict(pp[1], image) IN
        IF out.kind = "raise"
        THEN [ ret |-> <<None, None, Some(out.msg)>>, pre |-> TRUE, inf |-> TRUE ]
        ELSE
          LET d == Decide(out.val[1]) IN
          [ ret |-> <<Some(d[1]), Some(d[2]), None>>, pre |-> TRUE, inf |-> TRUE ]

(***************************************************************************)
(* Strings the batch flow formats and searches                             *)
(***************************************************************************)
Digits == <<"0", "1", "2", "3", "4", "5", "6", "7", "8", "9">>

RECURSIVE IntStr(_)
\* the decimal digits of a natural number
IntStr(n) ==
    IF n < 10 THEN <<Digits[n + 1]>>
    ELSE IntStr(n \div 10) \o <<Digits[(n % 10) + 1]>>

\* f"{confidence*100:.2f}%" for a confidence of conf/PScale
FormatConfidence(conf) ==
    LET h == (2 * conf * 10000 + PScale) \div (2 * PScale) IN
    IntStr(h \div 100) \o <<".">>
        \o <<Digits[((h % 100) \div 10) + 1], Digits[(h % 10) + 1]>> \o <<"%">>

StrNA == <<"N", "/", "A">>
StrDRDetected == <<"D", "R", " ", "D", "e", "t", "e", "c", "t", "e", "d">>
StrNoDR == <<"N", "o", " ", "D", "R">>
StrFailed == <<"F", "a", "i", "l", "e", "d">>

\* Python's "needle in hay" on strings
Contains(needle, hay) ==
    \E i \in 0..(Len(hay) - Len(needle)) :
        SubSeq(hay, i + 1, i + Len(needle)) = needle

(***************************************************************************)
(* The batch loop body and the summary                                     *)
(***************************************************************************)
\* a failure reported with a zero confidence instead of N/A
FailedRecordZeroConfidence(name) ==
    [ Filename |-> name, Prediction |-> "Error",
      Confidence |-> <<"0", ".", "0", "0", "%">>, Status |-> StrFailed ]

FailedRecord(name) ==
    [ Filename |-> name, Prediction |-> "Error", Confidence |-> StrNA,
      Status |-> StrFailed ]

\* the else branch of lines 362-369; confidence*100 raises TypeError on None,
\* before anything is appended, and the bare except appends the Failed record
SuccessRecord(name, ret) ==
    IF ret[2] = None THEN FailedRecord(name)
    ELSE [ Filename |-> name, Prediction |-> ret[1][1],
           Confidence |-> FormatConfidence(ret[2][1]),
           Status |-> IF ret[1] = Some("Diabetic_Retinopathy")
                      THEN StrDRDetected ELSE StrNoDR ]

\* the record one loop iteration appends, given predict_image's return value
RecordOf(name, ret) ==
    IF Truthy(ret[3]) THEN FailedRecord(name) ELSE SuccessRecord(name, ret)

\* sum(1 for r in results if needle in r['Status'])
CountStatus(needle, recs) ==
    Cardinality({ i \in 1..Len(recs) : Contains(needle, recs[i].Status) })

\* the positive count searched with the needle 'DR', which 'No DR' holds too
SummarizeShortNeedle(recs) ==
    [ total |-> Len(recs),
      positive |-> CountStatus(<<"D", "R">>, recs),
      negative |-> CountStatus(StrNoDR, recs),
      failed |-> CountStatus(StrFailed, recs) ]

\* lines 389-392
Summarize(recs) ==
    [ total |-> Len(recs),
      positive |-> CountStatus(StrDRDetected, recs),
      negative |-> CountStatus(StrNoDR, recs),
      failed |-> CountStatus(StrFailed, recs) ]

\* names of uploaded files
FileNames == {"left.png", "right.jpg"}

Batches == UNION { [1..n -> FileNames] : n \in 1..MaxBatch }

\* an image fails when Image.open, the preprocessing or model.predict raises
ImageFails(image) ==
    ~image.open \/ image.pre.kind = "raise" \/ image.out.kind = "raise"

\* history: how the image of one iteration fared, given predict_image's label
OutcomeOf(image, ret) ==
    IF ImageFails(image) THEN "failed"
    ELSE IF ret[1] = Some("Diabetic_Retinopathy") THEN "dr"
    ELSE IF ret[1] = Some("No_Diabetic_Retinopathy") THEN "nodr"
    ELSE "none"

(***************************************************************************)
(* The script run                                                          *)
(***************************************************************************)
Init ==
    /\ cache = None
    /\ model = None
    /\ metadata = None
    /\ error = None
    /\ pc = "load"
    /\ batch_files = <<>>
    /\ idx = 0
    /\ results = <<>>
    /\ summary = None
    /\ loadCall = None
    /\ predCall = None
    /\ outcomes = <<>>
    /\ raised = None

\* line 127, first run of the process: the function body runs and is memoized
LoadFirst ==
    /\ pc = "load"
    /\ cache = None
    /\ \E fs \in Filesystems :
         LET r == load_trained_model(fs) IN
         /\ cache' = Some(r.ret)
         /\ model' = r.ret[1]
         /\ metadata' = r.ret[2]
         /\ error' = r.ret[3]
         /\ loadCall' = Some([fs |-> fs, loaded |-> r.loaded, read |-> r.read,
                              ret |-> r.ret])
    /\ pc' = "gate"
    /\ predCall' = None
    /\ UNCHANGED <<batch_files, idx, results, summary, outcomes, raised>>

\* line 127, later runs: st.cache_resource returns the memoized triple
LoadCached ==
    /\ pc = "load"
    /\ cache # None
    /\ model' = cache[1][1]
    /\ metadata' = cache[1][2]
    /\ error' = cache[1][3]
    /\ pc' = "gate"
    /\ loadCall' = None
    /\ predCall' = None
    /\ UNCHANGED <<cache, batch_files, idx, results, summary, outcomes, raised>>

\* the error is shown but st.stop() is missing
GateWithoutStop ==
    /\ pc = "gate"
    /\ model = None
    /\ pc' = "single"
    /\ loadCall' = None
    /\ predCall' = None
    /\ UNCHANGED <<cache, model, metadata, error, batch_files, idx, results,
                   summary, outcomes, raised>>

\* lines 207-219: st.error and st.stop()
GateStop ==
    /\ pc = "gate"
    /\ model = None
    /\ pc' = "stopped"
    /\ loadCall' = None
    /\ predCall' = None
    /\ UNCHANGED <<cache, model, metadata, error, batch_files, idx, results,
                   summary, outcomes, raised>>

\* line 221
GatePass ==
    /\ pc = "gate"
    /\ model # None
    /\ pc' = "single"
    /\ loadCall' = None
    /\ predCall' = None
    /\ UNCHANGED <<cache, model, metadata, error, batch_files, idx, results,
                   summary, outcomes, raised>>

\* line 231: nothing in the single uploader
SingleIdle ==
    /\ pc = "single"
    /\ pc' = "batch"
    /\ loadCall' = None
    /\ predCall' = None
    /\ UNCHANGED <<cache, model, metadata, error, batch_files, idx, results,
                   summary, outcomes, raised>>

\* line 236: Image.open(uploaded_file) raises, outside any try
SingleOpenFails ==
    /\ pc = "single"
    /\ \E image \in Images : ~image.open
    /\ pc' = "crashed"
    /\ raised' = Some("UnidentifiedImageError")
    /\ loadCall' = None
    /\ predCall' = None
    /\ UNCHANGED <<cache, model, metadata, error, batch_files, idx, results,
                   summary, outcomes>>

\* lines 236-251: the image opens and the button is not pressed
SingleView ==
    /\ pc = "single"
    /\ \E image \in Images : image.open
    /\ pc' = "batch"
    /\ loadCall' = None
    /\ predCall' = None
    /\ UNCHANGED <<cache, model, metadata, error, batch_files, idx, results,
                   summary, outcomes, raised>>

\* lines 251-327: "Analyze Image" pressed on an image that opened
SingleAnalyze ==
    /\ pc = "single"
    /\ \E image \in Images :
         /\ image.open
         /\ LET r == predict_image(model, image) IN
            /\ predCall' = Some([image |-> image, ret |-> r.ret,
                                 pre |-> r.pre, inf |-> r.inf])
            /\ error' = r.ret[3]
            /\ IF Truthy(r.ret[3])
               THEN pc' = "batch" /\ raised' = None
               ELSE IF r.ret[2] = None
               THEN pc' = "crashed" /\ raised' = Some("TypeError")
               ELSE pc' = "batch" /\ raised' = None
    /\ loadCall' = None
    /\ UNCHANGED <<cache, model, metadata, batch_files, idx, results,
                   summary, outcomes>>

\* line 340 / 343: no batch files, or the button is not pressed
BatchIdle ==
    /\ pc = "batch"
    /\ pc' = "done"
    /\ loadCall' = None
    /\ predCall' = None
    /\ UNCHANGED <<cache, model, metadata, error, batch_files, idx, results,
                   summary, outcomes, raised>>

\* lines 343-346: "Process All Images" pressed on a non-empty upload
BatchStart ==
    /\ pc = "batch"
    /\ \E files \in Batches : batch_files' = files
    /\ results' = <<>>
    /\ idx' = 0
    /\ outcomes' = <<>>
    /\ pc' = "loop"
    /\ loadCall' = None
    /\ predCall' = None
    /\ UNCHANGED <<cache, model, metadata, error, summary, raised>>

\* lines 348-378: one iteration of the loop
BatchStep ==
    /\ pc = "loop"
    /\ idx < Len(batch_files)
    /\ \E image \in Images :
         LET name == batch_files[idx + 1]
             r == predict_image(model, image)
         IN
         IF ~image.open
         THEN /\ results' = Append(results, FailedRecord(name))
              /\ predCall' = None
              /\ outcomes' = Append(outcomes, OutcomeOf(image, r.ret))
              /\ error' = error
         ELSE /\ results' = Append(results, RecordOf(name, r.ret))
              /\ predCall' = Some([image |-> image, ret |-> r.ret,
                                   pre |-> r.pre, inf |-> r.inf])
              /\ outcomes' = Append(outcomes, OutcomeOf(image, r.ret))
              /\ error' = r.ret[3]
    /\ idx' = idx + 1
    /\ loadCall' = None
    /\ UNCHANGED <<cache, model, metadata, pc, batch_files, summary, raised>>

\* lines 380-410: the loop is over
BatchSummary ==
    /\ pc = "loop"
    /\ idx = Len(batch_files)
    /\ summary' = Some(Summarize(results))
    /\ pc' = "done"
    /\ loadCall' = None
    /\ predCall' = None
    /\ UNCHANGED <<cache, model, metadata, error, batch_files, idx, results,
                   outcomes, raised>>

\* the next user interaction: Streamlit runs the script again, in a fresh
\* namespace; only the memoized resource survives
Rerun ==
    /\ pc \in {"done", "stopped", "crashed"}
    /\ pc' = "load"
    /\ model' = None
    /\ metadata' = None
    /\ error' = None
    /\ batch_files' = <<>>
    /\ idx' = 0
    /\ results' = <<>>
    /\ summary' = None
    /\ loadCall' = None
    /\ predCall' = None
    /\ outcomes' = <<>>
    /\ raised' = None
    /\ UNCHANGED cache

Next ==
    \/ LoadFirst
    \/ LoadCached
    \/ GateStop
    \/ GatePass
    \/ SingleIdle
    \/ SingleOpenFails
    \/ SingleView
    \/ SingleAnalyze
    \/ BatchIdle
    \/ BatchStart
    \/ BatchStep
    \/ BatchSummary
    \/ Rerun

Spec == Init /\ [][Next]_vars

(***************************************************************************)
(* Properties                                                              *)
(***************************************************************************)
LabelDR == "Diabetic_Retinopathy"
LabelNoDR == "No_Diabetic_Retinopathy"

Max(a, b) == IF a >= b THEN a ELSE b

\* indices of the candidates of a list that exist
ExistingIdx(paths, exists) == { i \in 1..Len(paths) : paths[i] \in exists }

\* the earliest existing candidate of a non-empty ExistingIdx
Earliest(paths, exists) ==
    paths[CHOOSE i \in ExistingIdx(paths, exists) :
            \A j \in ExistingIdx(paths, exists) : i <= j]

CountOutcome(o) == Cardinality({ i \in 1..Len(outcomes) : outcomes[i] = o })

BatchFinished == pc = "done" /\ summary # None

\* C1: with a loaded model and a successful preprocess, an output p gives
\* (No_Diabetic_Retinopathy, p) when p > 0.5 and (Diabetic_Retinopathy, 1-p)
\* when p <= 0.5; p = 0.5 gives Diabetic_Retinopathy with confidence 0.5; the
\* confidence is the larger of p and 1-p, so never below 0.5.
C1_DecisionRule ==
    predCall # None =>
      LET c == predCall[1] IN
      (model # None /\ c.image.pre.kind = "ok" /\ c.image.out.kind = "ok") =>
        LET p == c.image.out.val[1] IN
        /\ 2 * p > PScale => c.ret = <<Some(LabelNoDR), Some(p), None>>
        /\ 2 * p <= PScale => c.ret = <<Some(LabelDR), Some(PScale - p), None>>
        /\ p = PHalf => c.ret = <<Some(LabelDR), Some(PHalf), None>>
        /\ c.ret[2] = Some(Max(p, PScale - p))
        /\ 2 * c.ret[2][1] >= PScale

\* predict_image was just called on an image whose output is exactly 0.5
C1_Witness ==
    /\ predCall # None
    /\ model # None
    /\ predCall[1].image.out = Returns(Some(PHalf))
    /\ predCall[1].ret = <<Some(LabelDR), Some(PHalf), None>>

\* C2: after the loop over a batch of N images of which k failed, total = N,
\* failed = k, positive and negative are the numbers of images predicted
\* Diabetic_Retinopathy and No_Diabetic_Retinopathy, and the three add up to N.
C2_SummaryCounts ==
    BatchFinished =>
      LET sm == summary[1]
          N == Len(batch_files)
      IN
      /\ N >= 1
      /\ sm.total = N
      /\ sm.failed = CountOutcome("failed")
      /\ sm.positive = CountOutcome("dr")
      /\ sm.negative = CountOutcome("nodr")
      /\ sm.positive + sm.negative + sm.failed = N

\* a finished batch with a failure, a positive and a negative
C2_Witness ==
    /\ BatchFinished
    /\ Len(batch_files) = MaxBatch
    /\ summary[1].failed >= 1
    /\ summary[1].positive >= 1
    /\ summary[1].negative >= 1

\* C3: the batch is handled in input order, one record per image, record i
\* with the filename of image i; a failing image gives a Failed / Error / N/A
\* record, and the images after it are still handled and get their records.
C3_OrderAndIsolation ==
    (pc = "loop" \/ BatchFinished) =>
      /\ Len(results) = idx
      /\ Len(outcomes) = idx
      /\ idx <= Len(batch_files)
      /\ raised = None
      /\ BatchFinished => Len(results) = Len(batch_files)
      /\ \A i \in 1..Len(results) :
           /\ results[i].Filename = batch_files[i]
           /\ outcomes[i] = "failed" =>
                /\ results[i].Status = StrFailed
                /\ results[i].Prediction = "Error"
                /\ results[i].Confidence = StrNA
           /\ outcomes[i] # "failed" =>
                /\ results[i].Status # StrFailed
                /\ results[i].Prediction \in {LabelDR, LabelNoDR}

\* a finished batch of two differently named files whose first image failed
\* and whose second image got its prediction
C3_Witness ==
    /\ BatchFinished
    /\ Len(results) >= 2
    /\ batch_files[1] # batch_files[2]
    /\ outcomes[1] = "failed"
    /\ results[1].Status = StrFailed
    /\ outcomes[2] = "nodr"
    /\ results[2].Status = StrNoDR

\* C4: load_trained_model gives load_model the first model candidate that
\* exists, and only that one; when none exists it returns
\* (None, None, "Model file not found") and loads nothing.
C4_FirstExistingModel ==
    loadCall # None =>
      LET c == loadCall[1] IN
      IF ExistingIdx(possible_paths, c.fs.exists) = {}
      THEN /\ c.ret = <<None, None, Some("Model file not found")>>
           /\ c.loaded = <<>>
      ELSE c.loaded = <<Earliest(possible_paths, c.fs.exists)>>

\* the call found the first candidate missing and two later ones present
C4_Witness ==
    /\ loadCall # None
    /\ possible_paths[1] \notin loadCall[1].fs.exists
    /\ possible_paths[2] \in loadCall[1].fs.exists
    /\ possible_paths[4] \in loadCall[1].fs.exists
    /\ loadCall[1].loaded = <<possible_paths[2]>>

C6_AsStated ==
    loadCall # None =>
      LET c == loadCall[1] IN
      ExistingIdx(possible_paths, c.fs.exists) = {} =>
        /\ c.ret[1] = None
        /\ c.ret[3] # None
        /\ c.ret[2] =
             IF ExistingIdx(metadata_paths, c.fs.exists) = {}
             THEN Some(DefaultMetadata)
             ELSE c.fs.json[Earliest(metadata_paths, c.fs.exists)].val

\* C6 amended: when no model candidate exists the model is null, the error is
\* the non-null string "Model file not found", and the metadata is null too:
\* no metadata file is opened and no default record is made.
C6_NoModelNoMetadata ==
    loadCall # None =>
      LET c == loadCall[1] IN
      ExistingIdx(possible_paths, c.fs.exists) = {} =>
        /\ c.ret[1] = None
        /\ c.ret[3] = Some("Model file not found")
        /\ c.ret[2] = None
        /\ c.read = <<>>
        /\ metadata = None

\* no model candidate existed while a readable metadata file did
C6_Witness ==
    /\ loadCall # None
    /\ ExistingIdx(possible_paths, loadCall[1].fs.exists) = {}
    /\ metadata_paths[1] \in loadCall[1].fs.exists
    /\ loadCall[1].fs.json[metadata_paths[1]] = Returns(Some(FileMetadataA))
    /\ loadCall[1].ret[2] = None

\* C7 as stated: every predict_image call returns either (label, confidence,
\* None) or (None, None, error); a preprocessing failure returns the
\* preprocessor's error string unchanged and runs no inference, an inference
\* failure returns the exception's string, whatever the message, the empty
\* string included.
C7_AsStated ==
    predCall # None =>
      LET c == predCall[1] IN
      /\ \/ c.ret[1] # None /\ c.ret[2] # None /\ c.ret[3] = None
         \/ c.ret[1] = None /\ c.ret[2] = None /\ c.ret[3] # None
      /\ c.image.pre.kind = "raise" =>
           /\ c.ret = <<None, None, Some(c.image.pre.msg)>>
           /\ ~c.inf
      /\ (c.image.pre.kind = "ok" /\ c.image.out.kind = "raise") =>
           c.ret = <<None, None, Some(c.image.out.msg)>>
      /\ (c.image.pre.kind = "ok" /\ c.image.out.kind = "ok") =>
           c.ret[1] # None /\ c.ret[2] # None /\ c.ret[3] = None

\* C8 as stated: no exception leaves the script run in either flow, and the
\* run is halted only when the model is absent.
C8_AsStated ==
    /\ pc # "crashed"
    /\ raised = None
    /\ pc = "stopped" => model = None

\* C9: when load_trained_model returned a null model, every run stops at the
\* gate: no flow is entered, predict_image is not called and no record is
\* made; and predict_image with a null model returns
\* (None, None, "Model not loaded") without preprocessing or inference.
C9_NoModelNoInference ==
    /\ (cache # None /\ cache[1][1] = None) =>
         /\ pc \in {"load", "gate", "stopped"}
         /\ predCall = None
         /\ results = <<>>
         /\ summary = None
    /\ \A image \in Images :
         predict_image(None, image) =
           [ ret |-> <<None, None, Some("Model not loaded")>>,
             pre |-> FALSE, inf |-> FALSE ]

\* a rerun after a failed load stopped at the gate again
C9_Witness ==
    /\ pc = "stopped"
    /\ cache # None
    /\ cache[1][1] = None
    /\ model = None
    /\ loadCall = None
    /\ error # None

\* C10: if the first existing model candidate fails to load, no later
\* candidate is tried; if the model loads and the first existing metadata
\* file cannot be read, the function returns (None, None, str(e)): the model
\* is dropped, and neither the next metadata file nor the default is used.
C10_NoRecoveryAfterSelection ==
    loadCall # None =>
      LET c == loadCall[1] IN
      ExistingIdx(possible_paths, c.fs.exists) # {} =>
        LET lo == c.fs.load[Earliest(possible_paths, c.fs.exists)] IN
        /\ lo.kind = "raise" =>
             /\ c.ret = <<None, None, Some(lo.msg)>>
             /\ c.loaded = <<Earliest(possible_paths, c.fs.exists)>>
             /\ c.read = <<>>
        /\ ( /\ lo.kind = "ok"
             /\ ExistingIdx(metadata_paths, c.fs.exists) # {}
             /\ c.fs.json[Earliest(metadata_paths, c.fs.exists)].kind = "raise" ) =>
             /\ c.ret = <<None, None,
                          Some(c.fs.json[Earliest(metadata_paths, c.fs.exists)].msg)>>
             /\ c.read = <<Earliest(metadata_paths, c.fs.exists)>>
             /\ model = None
             /\ metadata = None

\* the model loaded, the first metadata file was unreadable and a second,
\* readable one existed: the call still returned the error
C10_Witness ==
    /\ loadCall # None
    /\ loadCall[1].loaded # <<>>
    /\ loadCall[1].fs.exists = AllPaths
    /\ loadCall[1].fs.load[possible_paths[1]].kind = "ok"
    /\ loadCall[1].fs.json[metadata_paths[1]].kind = "raise"
    /\ loadCall[1].fs.json[metadata_paths[2]] = Returns(Some(FileMetadataB))
    /\ loadCall[1].ret[1] = None
    /\ loadCall[1].ret[2] = None

====
